---- MODULE Spec2Model ----
(***************************************************************************)
(* crazy-train: the Runner's orchestration of steps (src/src/runner.rs),   *)
(* the Step contract and Plan (src/src/step.rs), the execution             *)
(* collaborator (src/src/executer.rs), the error type (src/src/errors.rs)  *)
(* and the seeded Randomizer (src/src/randomizer.rs, src/src/generator.rs).*)
(***************************************************************************)
EXTENDS Integers, Sequences, FiniteSets, TLC

VARIABLES
    steps,      \* Runner.steps: the ordered list of steps
    init,       \* Runner.init: the step given to init_step, if any
    randomizer, \* Runner.randomizer: [rng, seed]
    pc,         \* position inside run() / dump_plan()
    caller,     \* which public operation is in progress
    i,          \* index of the step the current loop is at (1-based)
    report,     \* dump_plan's `output`
    step_plan,  \* run(): `step_plan` of line 92
    exec_plan,  \* run(): the temporary Plan of line 101
    cmd_result, \* run(): `result` of line 101
    result,     \* the value returned to the caller
    randomizer0, \* history: the randomizer when the operation was called
    log,        \* history of the calls made on steps and on the executer
    entropy,    \* the system entropy source (what StdRng::from_entropy reads)
    ra, rb,     \* two Randomizers built independently of each other
    outa, outb, \* what the last draw operation returned on ra and on rb
    ops,        \* number of draw operations applied to ra and rb so far
    lastop      \* the draw operation applied last to ra: its name and arguments

runnerVars == <<steps, init, randomizer, pc, caller, i, report, step_plan, exec_plan,
                cmd_result, result, randomizer0, log>>
runnerVars_but_pc == <<steps, init, randomizer, caller, i, report, step_plan, exec_plan,
                       cmd_result, result, randomizer0, log>>
randVars == <<entropy, ra, rb, outa, outb, ops, lastop>>
vars == <<runnerVars, randVars>>

(***************************************************************************)
(* Bounds of the model.                                                    *)
(***************************************************************************)
MaxSteps == 2
MaxSeed == 1
MaxPriorDraws == 1
PlanArgMax == 2
WordBits == 8
MaxOps == 3
MaxLen == 3
MaxItems == 3
MaxStreamPos == 7

(***************************************************************************)
(* Result<T, E> and Option<T>.                                             *)
(***************************************************************************)
Ok(v) == [tag |-> "Ok", val |-> v]
Err(e) == [tag |-> "Err", val |-> e]
IsOk(r) == r.tag = "Ok"
IsErr(r) == r.tag = "Err"
Some(v) == <<v>>
None == <<>>
Unit == "()"
Pending == [tag |-> "Pending"]

(***************************************************************************)
(* errors.rs: the Error enum.                                              *)
(***************************************************************************)
StepError(kind, description, command_output) ==
    [type |-> "StepError", kind |-> kind, description |-> description,
     command_output |-> command_output]
IOError == [type |-> "IO"]
Utf8Error == [type |-> "Utf8"]
AnyError(msg) == [type |-> "Any", msg |-> msg]

(***************************************************************************)
(* randomizer.rs: the Randomizer.  StdRng is a deterministic generator:    *)
(* the word it yields is a function of the seed and of the number of words *)
(* already drawn.  Words are WordBits wide.                                *)
(***************************************************************************)
U32 == 2 ^ WordBits

StdRng_word(key, pos) ==
    (((key + 1) * 37) + (pos * pos * 11) + (pos * 5) + 3) % U32

\* StdRng::seed_from_u64
seed_from_u64(seed) == [key |-> seed, pos |-> 0]

\* Randomizer::with_seed; the first variant keys the generator from the
\* entropy source, as Default does, and only records the seed
with_seed_from_entropy(seed) == [rng |-> seed_from_u64(entropy), seed |-> seed]
with_seed(seed) == [rng |-> seed_from_u64(seed), seed |-> seed]

\* Default for Randomizer: the seed is drawn from the entropy source
RandomizerDefault == with_seed(entropy)

\* next_u32 on a Randomizer that keeps the last word drawn as its seed
next_u32_reseeds(r) ==
    [val |-> StdRng_word(r.rng.key, r.rng.pos),
     next |-> [r EXCEPT !.rng.pos = @ + 1, !.seed = StdRng_word(r.rng.key, r.rng.pos)]]

\* RngCore::next_u32 on self.rng
next_u32(r) ==
    [val |-> StdRng_word(r.rng.key, r.rng.pos),
     next |-> [r EXCEPT !.rng.pos = @ + 1]]

\* Rng::gen_range(lo..hi): one word of the stream, reduced to lo..hi-1
gen_range(r, lo, hi) ==
    LET d == next_u32(r)
    IN  [val |-> lo + (d.val % (hi - lo)), next |-> d.next]

\* the randomizer after n words have been drawn from it
RECURSIVE Advance(_, _)
Advance(r, n) == IF n = 0 THEN r ELSE Advance(next_u32(r).next, n - 1)

\* Randomizer::number_between: min + (random_number % (max - min + 1)) on u32,
\* for max >= min; max - min + 1 = 2^32 overflows (or divides by zero)
number_between(r, min, max) ==
    LET d == next_u32(r)
    IN  [val |-> IF max - min + 1 >= U32 THEN "panic"
                 ELSE min + (d.val % (max - min + 1)),
         next |-> d.next,
         panic |-> max - min + 1 >= U32]

\* Randomizer::bool
bool(r) ==
    LET d == next_u32(r)
    IN  [val |-> (d.val % 2 = 0), next |-> d.next]

(***************************************************************************)
(* generator.rs: StringDef.  A string is a sequence of chars, a char is    *)
(* its code point; String::len counts the bytes of the UTF-8 encoding.     *)
(***************************************************************************)
\* const SYMBOLS (a raw string: the backslash before the quote is a char)
SYMBOLS ==
    << 33, 92, 34, 35, 36, 37, 38, 39, 40, 41, 42, 43, 44, 45, 46, 47, 58, 59, 60,
       61, 62, 63, 64, 91, 92, 93, 94, 95, 96, 123, 124, 125, 126 >>

\* char::len_utf8
len_utf8(c) ==
    IF c < 128 THEN 1 ELSE IF c < 2048 THEN 2 ELSE IF c < 65536 THEN 3 ELSE 4

\* String::len
RECURSIVE StringLen(_)
StringLen(str) == IF str = <<>> THEN 0 ELSE len_utf8(Head(str)) + StringLen(Tail(str))

\* std::char::from_u32: Some(c) for a scalar value, None otherwise
from_u32(c) == IF (c >= 55296 /\ c <= 57343) \/ c > 1114111 THEN None ELSE Some(c)

StringDefDefault ==
    [length |-> 6, include_unicode |-> FALSE, include_symbol |-> FALSE,
     include_capital_letters |-> FALSE, include_numbers |-> FALSE]

\* the loop body with the symbol branch tested before the unicode branch
generate_char_symbol_first(def, r) ==
    LET choice == gen_range(r, 0, 100)
    IN  IF def.include_symbol /\ choice.val < 40 THEN
            LET k == gen_range(choice.next, 1, Len(SYMBOLS) + 1)
            IN  [val |-> SYMBOLS[k.val], next |-> k.next]
        ELSE IF def.include_unicode /\ choice.val < 20 THEN
            LET u == gen_range(choice.next, 128512, 128591)
            IN  [val |-> IF from_u32(u.val) # None THEN from_u32(u.val)[1] ELSE 63,
                 next |-> u.next]
        ELSE IF def.include_capital_letters /\ choice.val < 60 THEN
            gen_range(choice.next, 65, 91)
        ELSE IF def.include_numbers /\ choice.val < 80 THEN
            gen_range(choice.next, 48, 58)
        ELSE
            gen_range(choice.next, 97, 123)

\* the loop body with the numeric branch not asking for include_numbers
generate_char_numbers_always(def, r) ==
    LET choice == gen_range(r, 0, 100)
    IN  IF def.include_unicode /\ choice.val < 20 THEN
            LET u == gen_range(choice.next, 128512, 128591)
            IN  [val |-> IF from_u32(u.val) # None THEN from_u32(u.val)[1] ELSE 63,
                 next |-> u.next]
        ELSE IF def.include_symbol /\ choice.val < 40 THEN
            LET k == gen_range(choice.next, 1, Len(SYMBOLS) + 1)
            IN  [val |-> SYMBOLS[k.val], next |-> k.next]
        ELSE IF def.include_capital_letters /\ choice.val < 60 THEN
            gen_range(choice.next, 65, 91)
        ELSE IF choice.val < 80 THEN
            gen_range(choice.next, 48, 58)
        ELSE
            gen_range(choice.next, 97, 123)

\* the body of the while loop of StringDef::generate: the char pushed
generate_char(def, r) ==
    LET choice == gen_range(r, 0, 100)
    IN  IF def.include_unicode /\ choice.val < 20 THEN
            LET u == gen_range(choice.next, 128512, 128591)
            IN  [val |-> IF from_u32(u.val) # None THEN from_u32(u.val)[1] ELSE 63,
                 next |-> u.next]
        ELSE IF def.include_symbol /\ choice.val < 40 THEN
            LET k == gen_range(choice.next, 1, Len(SYMBOLS) + 1)
            IN  [val |-> SYMBOLS[k.val], next |-> k.next]
        ELSE IF def.include_capital_letters /\ choice.val < 60 THEN
            gen_range(choice.next, 65, 91)
        ELSE IF def.include_numbers /\ choice.val < 80 THEN
            gen_range(choice.next, 48, 58)
        ELSE
            gen_range(choice.next, 97, 123)

\* StringDef::generate: while result.len() < length { ... }
RECURSIVE generate_from(_, _, _)
generate_from(def, r, str) ==
    IF StringLen(str) < def.length
    THEN LET c == generate_char(def, r)
         IN  generate_from(def, c.next, Append(str, c.val))
    ELSE [val |-> str, next |-> r]

generate(def, r) == generate_from(def, r, <<>>)

\* Randomizer::string(def).to_string()
string(r, def) == generate(def, r)

\* the chars of a string, as a set
Chars(s) == { s[k] : k \in DOMAIN s }

\* char::is_uppercase and char::is_numeric, on the code points below 256
\* (no code point of the emoji block 1F600..1F64F is a letter or a number)
is_uppercase(c) == (c >= 65 /\ c <= 90) \/ (c >= 192 /\ c <= 222 /\ c # 215)
is_numeric(c) == (c >= 48 /\ c <= 57) \/ c \in {178, 179, 185, 188, 189, 190}
is_ascii(c) == c < 128

\* StringDef::contains_unicode: s.chars().any(|c| !c.is_ascii())
contains_unicode(s) == \E c \in Chars(s) : ~is_ascii(c)

\* StringDef::contains_symbols: s.chars().any(|c| SYMBOLS.contains(c))
contains_symbols(s) == \E c \in Chars(s) : \E k \in DOMAIN SYMBOLS : SYMBOLS[k] = c

\* StringDef::contains_numbers: s.chars().any(char::is_numeric)
contains_numbers(s) == \E c \in Chars(s) : is_numeric(c)

\* StringDef::contains_capital_letters: s.chars().any(char::is_uppercase)
contains_capital_letters(s) == \E c \in Chars(s) : is_uppercase(c)

\* StringDef::contains_only_lowercase
contains_only_lowercase(s) ==
    /\ ~contains_capital_letters(s)
    /\ ~contains_numbers(s)
    /\ ~contains_symbols(s)
    /\ ~contains_unicode(s)

\* Randomizer::path
RECURSIVE path_name(_, _, _)
path_name(r, n, str) ==
    IF n = 0 THEN [val |-> str, next |-> r]
    ELSE LET c == gen_range(r, 97, 123)
         IN  path_name(c.next, n - 1, Append(str, c.val))

path(r) ==
    LET path_length == gen_range(r, 5, 11)
    IN  path_name(path_length.next, path_length.val, <<>>)

\* Randomizer::shuffle: SliceRandom::shuffle on a copy of the items,
\* for k in (1..len).rev() { swap(k, gen_range(0..k + 1)) }  (indices from 1 here)
Swap_overwrites(items, k, l) == [items EXCEPT ![k] = items[l]]
Swap(items, k, l) == [items EXCEPT ![k] = items[l], ![l] = items[k]]

RECURSIVE shuffle_from(_, _, _)
shuffle_from(r, shuffled_items, k) ==
    IF k < 2 THEN [val |-> shuffled_items, next |-> r]
    ELSE LET j == gen_range(r, 1, k + 1)
         IN  shuffle_from(j.next, Swap(shuffled_items, k, j.val), k - 1)

\* `items` is borrowed: the shuffle works on items.to_vec()
shuffle(r, items) ==
    LET shuffled_items == shuffle_from(r, items, Len(items))
    IN  [val |-> shuffled_items.val, next |-> shuffled_items.next, items |-> items]

\* Randomizer::pick_random: gen_range(0..0) on an empty slice panics
RECURSIVE pick_from(_, _, _, _)
pick_from(r, items, count, picked) ==
    IF count = 0 THEN [val |-> picked, next |-> r]
    ELSE LET index == gen_range(r, 1, Len(items) + 1)
         IN  pick_from(index.next, items, count - 1, Append(picked, items[index.val]))

\* pick_random with the count drawn from 0..=10
pick_random_from_zero(r, items) ==
    LET count == gen_range(r, 0, 11)
    IN  IF items = <<>> THEN [val |-> "panic", next |-> count.next, panic |-> TRUE]
        ELSE LET picked == pick_from(count.next, items, count.val, <<>>)
             IN  [val |-> picked.val, next |-> picked.next, panic |-> FALSE]

pick_random(r, items) ==
    LET count == gen_range(r, 1, 11)
    IN  IF items = <<>> THEN [val |-> "panic", next |-> count.next, panic |-> TRUE]
        ELSE LET picked == pick_from(count.next, items, count.val, <<>>)
             IN  [val |-> picked.val, next |-> picked.next, panic |-> FALSE]

(***************************************************************************)
(* executer.rs: Output and run_sh.  The shell is the environment: it       *)
(* decides how the command ends.  The modelled shell echoes the command on *)
(* stdout, so that an Output tells which command produced it.              *)
(***************************************************************************)
ExecOutcomes == {"exit0", "exit1", "signal", "io", "utf8"}

status_code(outcome) ==
    CASE outcome = "exit0" -> Some(0)
      [] outcome = "exit1" -> Some(1)
      [] OTHER -> None

run_sh(command, outcome) ==
    IF outcome = "io" THEN Err(IOError)
    ELSE IF outcome = "utf8" THEN Err(Utf8Error)
    ELSE Ok([status_code |-> status_code(outcome), stdout |-> command, stderr |-> <<>>])

(***************************************************************************)
(* step.rs: StepTrait implementations.  A step is a value of one of these  *)
(* types; run_check / run_test say whether the optional command is given.  *)
(***************************************************************************)
StepTypes ==
    { [name |-> "TestStepOne", judge |-> "RequireZero", run_check |-> TRUE, run_test |-> TRUE],
      [name |-> "StepTwo", judge |-> "ExpectFailure", run_check |-> FALSE, run_test |-> FALSE],
      [name |-> "SoftCheck", judge |-> "SoftZero", run_check |-> TRUE, run_test |-> FALSE],
      [name |-> "SoftTest", judge |-> "SoftZero", run_check |-> FALSE, run_test |-> TRUE],
      [name |-> "CustomStep", judge |-> "SoftZero", run_check |-> FALSE, run_test |-> FALSE] }

\* the command text a step gives to Plan::new / Plan::with_ctx, which take
\* any string: the step CustomStep gives ""
PlanCommand(step, k, arg) ==
    IF step.name = "CustomStep" THEN <<>> ELSE <<"plan", k, arg>>

\* the errors::Error a failing callback returns: any value of the public enum;
\* CustomStep returns a StepError it builds itself, the others Any and IO
NoOutput == [status_code |-> None, stdout |-> <<>>, stderr |-> <<>>]
PlanError(step) ==
    IF step.name = "CustomStep" THEN StepError("Plan", "no plan", NoOutput)
    ELSE AnyError("plan")
SetupError(step) ==
    IF step.name = "CustomStep" THEN StepError("Setup", "setup failed", NoOutput)
    ELSE IOError

\* StepTrait::plan: draws from the randomizer, then builds the Plan (or fails)
StepPlan(step, k, r, fails) ==
    LET d == number_between(r, 0, PlanArgMax)
    IN  [next |-> d.next,
         res |-> IF fails THEN Err(PlanError(step))
                 ELSE Ok([id |-> step.name, command |-> PlanCommand(step, k, d.val),
                          ctx |-> Some(d.val)])]

\* StepTrait::setup
StepSetup(k, fails) == IF fails THEN Err(SetupError(steps[k])) ELSE Ok(Unit)

\* StepTrait::is_success
is_success(step, execution_result, plan_ctx) ==
    CASE step.judge = "RequireZero" ->
            IF execution_result.status_code = Some(0) THEN Ok(TRUE)
            ELSE Err("status code should be 0")
      [] step.judge = "ExpectFailure" ->
            IF execution_result.status_code = Some(0) THEN Err("expected failure command")
            ELSE Ok(TRUE)
      [] OTHER -> Ok(execution_result.status_code = Some(0))

\* StepTrait::run_check / run_test
run_check(k) == IF steps[k].run_check THEN Some(<<"check", k>>) ELSE None
run_test(k) == IF steps[k].run_test THEN Some(<<"test", k>>) ELSE None

\* Plan::execute
PlanExecute(plan, outcome) == run_sh(plan.command, outcome)

(***************************************************************************)
(* The history: one event per call made on a step or on the executer.      *)
(***************************************************************************)
Event(op, k, arg, res) == [op |-> op, step |-> k, path |-> pc, arg |-> arg, res |-> res]

NoPlan == [id |-> "", command |-> <<>>, ctx |-> None]

StepSeqs == UNION { [1..n -> StepTypes] : n \in 0..MaxSteps }

\* no draw operation has been applied
NoOp == [op |-> "none"]

\* no Randomizer other than the Runner's is in use
Unbuilt == [rng |-> seed_from_u64(0), seed |-> 0]
RandIdle ==
    /\ entropy = 0
    /\ ra = Unbuilt
    /\ rb = Unbuilt
    /\ outa = <<>>
    /\ outb = <<>>
    /\ ops = 0
    /\ lastop = NoOp

Init ==
    /\ steps \in StepSeqs
    /\ init = None
    /\ \E seed \in 0..MaxSeed, prior \in 0..MaxPriorDraws :
          randomizer = Advance(with_seed(seed), prior)
    /\ pc = "idle"
    /\ caller = "none"
    /\ i = 0
    /\ report = <<>>
    /\ step_plan = NoPlan
    /\ exec_plan = NoPlan
    /\ cmd_result = Pending
    /\ result = Pending
    /\ randomizer0 = randomizer
    /\ RandIdle
    /\ log = <<>>

(***************************************************************************)
(* runner.rs: the builder.                                                 *)
(***************************************************************************)
\* lines 36-39: self.init = Some(step)
InitStep ==
    /\ pc = "idle"
    /\ \E step \in StepTypes : init' = Some(step)
    /\ init' # init
    /\ UNCHANGED <<randVars, steps, randomizer0, randomizer, pc, caller, i, report, step_plan, exec_plan, cmd_result, result, log>>

(***************************************************************************)
(* runner.rs: dump_plan.                                                   *)
(***************************************************************************)
CallDumpPlan ==
    /\ pc = "idle"
    /\ pc' = "dump"
    /\ caller' = "dump_plan"
    /\ i' = 1
    /\ report' = <<[count |-> Len(steps), seed |-> randomizer.seed]>>
    /\ UNCHANGED <<randVars, steps, init, randomizer0, randomizer, step_plan, exec_plan, cmd_result, result, log>>

\* line 90 preceded by the setup of the init step, when there is one
CallRun_runs_init ==
    /\ pc = "idle"
    /\ pc' = "dump"
    /\ caller' = "run"
    /\ i' = 1
    /\ report' = <<[count |-> Len(steps), seed |-> randomizer.seed]>>
    /\ log' = IF init = None THEN log
              ELSE Append(log, Event("setup", 0, Unit, StepSetup(0, FALSE)))
    /\ UNCHANGED <<randVars, steps, init, randomizer0, randomizer, step_plan, exec_plan, cmd_result, result>>

CallRun ==
    /\ pc = "idle"
    /\ pc' = "dump"
    /\ caller' = "run"
    /\ i' = 1
    /\ report' = <<[count |-> Len(steps), seed |-> randomizer.seed]>>
    /\ UNCHANGED <<randVars, steps, init, randomizer0, randomizer, step_plan, exec_plan, cmd_result, result, log>>

\* the loop of lines 63-80 with a call of setup added to the iteration
DumpPlanStep_runs_setup ==
    /\ pc = "dump"
    /\ i <= Len(steps)
    /\ \E fails \in BOOLEAN :
         LET p == StepPlan(steps[i], i, randomizer, fails)
         IN  /\ randomizer' = p.next
             /\ IF IsErr(p.res)
                THEN /\ log' = Append(log, Event("plan", i, Unit, p.res))
                     /\ result' = p.res
                     /\ pc' = "done"
                     /\ UNCHANGED <<i, report>>
                ELSE /\ log' = log \o << Event("plan", i, Unit, p.res),
                                         Event("setup", i, Unit, StepSetup(i, FALSE)),
                                         Event("to_yaml", i, Unit, Ok(steps[i].name)) >>
                     /\ report' = Append(report, [index |-> i, id |-> p.res.val.id,
                                                  command |-> p.res.val.command,
                                                  state |-> steps[i].name])
                     /\ i' = i + 1
                     /\ UNCHANGED <<pc, result>>
    /\ UNCHANGED <<randVars, steps, init, randomizer0, caller, step_plan, exec_plan, cmd_result>>

\* the loop of lines 63-80 stopping after the first step when run() called it
DumpPlanStep_lazy ==
    /\ pc = "dump"
    /\ i <= Len(steps)
    /\ \E fails \in BOOLEAN :
         LET p == StepPlan(steps[i], i, randomizer, fails)
         IN  /\ randomizer' = p.next
             /\ IF IsErr(p.res)
                THEN /\ log' = Append(log, Event("plan", i, Unit, p.res))
                     /\ result' = p.res
                     /\ pc' = "done"
                     /\ UNCHANGED <<i, report>>
                ELSE /\ log' = log \o << Event("plan", i, Unit, p.res),
                                         Event("to_yaml", i, Unit, Ok(steps[i].name)) >>
                     /\ report' = Append(report, [index |-> i, id |-> p.res.val.id,
                                                  command |-> p.res.val.command,
                                                  state |-> steps[i].name])
                     /\ IF caller = "run"
                        THEN pc' = "loop" /\ i' = 1
                        ELSE i' = i + 1 /\ UNCHANGED pc
                     /\ UNCHANGED result
    /\ UNCHANGED <<randVars, steps, init, randomizer0, caller, step_plan, exec_plan, cmd_result>>

\* one iteration of the loop of lines 63-80
DumpPlanStep ==
    /\ pc = "dump"
    /\ i <= Len(steps)
    /\ \E fails \in BOOLEAN :
         LET p == StepPlan(steps[i], i, randomizer, fails)
         IN  /\ randomizer' = p.next
             /\ IF IsErr(p.res)
                THEN /\ log' = Append(log, Event("plan", i, Unit, p.res))
                     /\ result' = p.res
                     /\ pc' = "done"
                     /\ UNCHANGED <<i, report>>
                ELSE /\ log' = log \o << Event("plan", i, Unit, p.res),
                                         Event("to_yaml", i, Unit, Ok(steps[i].name)) >>
                     /\ report' = Append(report, [index |-> i, id |-> p.res.val.id,
                                                  command |-> p.res.val.command,
                                                  state |-> steps[i].name])
                     /\ i' = i + 1
                     /\ UNCHANGED <<pc, result>>
    /\ UNCHANGED <<randVars, steps, init, randomizer0, caller, step_plan, exec_plan, cmd_result>>

\* line 82, and for run() line 90 and the entry of the loop of line 91
DumpPlanReturn ==
    /\ pc = "dump"
    /\ i > Len(steps)
    /\ IF caller = "dump_plan"
       THEN /\ result' = Ok(report)
            /\ pc' = "done"
            /\ UNCHANGED i
       ELSE /\ pc' = "loop"
            /\ i' = 1
            /\ UNCHANGED result
    /\ UNCHANGED <<randVars, steps, init, randomizer0, randomizer, caller, report, step_plan, exec_plan, cmd_result, log>>

(***************************************************************************)
(* runner.rs: run.                                                         *)
(***************************************************************************)
\* `?` on a failed call: run() returns the error
Return(r) ==
    /\ result' = r
    /\ pc' = "done"

\* the end of an iteration in a loop that gives every step a second attempt
NextIteration_retries_once ==
    /\ pc' = "loop"
    /\ i' = IF Cardinality({ k \in DOMAIN log : log[k].op = "execute" /\ log[k].step = i }) < 2
            THEN i ELSE i + 1

\* end of one iteration of the loop of line 91 (also `continue`, line 115)
NextIteration ==
    /\ pc' = "loop"
    /\ i' = i + 1

\* line 92: let step_plan = step.plan(&self.randomizer)?;
RunPlan ==
    /\ pc = "loop"
    /\ i <= Len(steps)
    /\ \E fails \in BOOLEAN :
         LET p == StepPlan(steps[i], i, randomizer, fails)
         IN  /\ randomizer' = p.next
             /\ log' = Append(log, Event("plan", i, Unit, p.res))
             /\ IF IsErr(p.res)
                THEN /\ Return(p.res)
                     /\ UNCHANGED step_plan
                ELSE /\ step_plan' = p.res.val
                     /\ pc' = "setup"
                     /\ UNCHANGED result
    /\ UNCHANGED <<randVars, steps, init, randomizer0, caller, i, report, exec_plan, cmd_result>>

\* line 98 without the `?`: the outcome of setup is dropped
RunSetup_ignores_error ==
    /\ pc = "setup"
    /\ \E fails \in BOOLEAN :
         log' = Append(log, Event("setup", i, Unit, StepSetup(i, fails)))
    /\ pc' = "execplan"
    /\ UNCHANGED <<randVars, steps, init, randomizer0, randomizer, caller, i, report, step_plan, exec_plan, cmd_result, result>>

\* line 98 in a loop that calls setup again when it failed
RunSetup_retries ==
    /\ pc = "setup"
    /\ \E fails \in BOOLEAN :
         LET r == StepSetup(i, fails)
         IN  /\ log' = Append(log, Event("setup", i, Unit, r))
             /\ pc' = IF IsErr(r) /\ Len(log) < 8 THEN "setup" ELSE "execplan"
    /\ UNCHANGED <<randVars, steps, init, randomizer0, randomizer, caller, i, report, step_plan, exec_plan, cmd_result, result>>

\* line 98 with the error of setup wrapped in a StepError of kind Setup
RunSetup_wraps_error ==
    /\ pc = "setup"
    /\ \E fails \in BOOLEAN :
         LET r == StepSetup(i, fails)
         IN  /\ log' = Append(log, Event("setup", i, Unit, r))
             /\ IF IsErr(r)
                THEN Return(Err(StepError("Setup", "setup failed", NoOutput)))
                ELSE /\ pc' = "execplan"
                     /\ UNCHANGED result
    /\ UNCHANGED <<randVars, steps, init, randomizer0, randomizer, caller, i, report, step_plan, exec_plan, cmd_result>>

\* line 98: step.setup()?;
RunSetup ==
    /\ pc = "setup"
    /\ \E fails \in BOOLEAN :
         LET r == StepSetup(i, fails)
         IN  /\ log' = Append(log, Event("setup", i, Unit, r))
             /\ IF IsErr(r)
                THEN Return(r)
                ELSE /\ pc' = "execplan"
                     /\ UNCHANGED result
    /\ UNCHANGED <<randVars, steps, init, randomizer0, randomizer, caller, i, report, step_plan, exec_plan, cmd_result>>

\* line 101 with the failure of plan replaced by the plan of line 92
RunExecPlan_falls_back ==
    /\ pc = "execplan"
    /\ \E fails \in BOOLEAN :
         LET p == StepPlan(steps[i], i, randomizer, fails)
         IN  /\ randomizer' = p.next
             /\ log' = Append(log, Event("plan", i, Unit, p.res))
             /\ exec_plan' = IF IsErr(p.res) THEN step_plan ELSE p.res.val
             /\ pc' = "execute"
    /\ UNCHANGED <<randVars, steps, init, randomizer0, caller, i, report, step_plan, cmd_result, result>>

\* line 101, first half: step.plan(&self.randomizer)?
RunExecPlan ==
    /\ pc = "execplan"
    /\ \E fails \in BOOLEAN :
         LET p == StepPlan(steps[i], i, randomizer, fails)
         IN  /\ randomizer' = p.next
             /\ log' = Append(log, Event("plan", i, Unit, p.res))
             /\ IF IsErr(p.res)
                THEN /\ Return(p.res)
                     /\ UNCHANGED exec_plan
                ELSE /\ exec_plan' = p.res.val
                     /\ pc' = "execute"
                     /\ UNCHANGED result
    /\ UNCHANGED <<randVars, steps, init, randomizer0, caller, i, report, step_plan, cmd_result>>

\* line 101 with the verdict of the check phase applied to the plan command
RunExecute_nonzero_fatal ==
    /\ pc = "execute"
    /\ \E outcome \in ExecOutcomes :
         LET r == PlanExecute(exec_plan, outcome)
         IN  /\ log' = Append(log, Event("execute", i, exec_plan, r))
             /\ IF IsErr(r)
                THEN /\ Return(r)
                     /\ UNCHANGED cmd_result
                ELSE IF r.val.status_code # Some(0)
                THEN /\ Return(Err(StepError("Plan", "plan not finish with status code 0", r.val)))
                     /\ UNCHANGED cmd_result
                ELSE /\ cmd_result' = r.val
                     /\ pc' = "judge"
                     /\ UNCHANGED result
    /\ UNCHANGED <<randVars, steps, init, randomizer0, randomizer, caller, i, report, step_plan, exec_plan>>

\* line 101 with an execution error folded into an Output without exit code
RunExecute_defers_error ==
    /\ pc = "execute"
    /\ \E outcome \in ExecOutcomes :
         LET r == PlanExecute(exec_plan, outcome)
         IN  /\ log' = Append(log, Event("execute", i, exec_plan, r))
             /\ cmd_result' = IF IsErr(r)
                              THEN [status_code |-> None, stdout |-> <<>>, stderr |-> <<>>]
                              ELSE r.val
             /\ pc' = "judge"
             /\ UNCHANGED result
    /\ UNCHANGED <<randVars, steps, init, randomizer0, randomizer, caller, i, report, step_plan, exec_plan>>

\* line 101, second half: .execute()?
RunExecute ==
    /\ pc = "execute"
    /\ \E outcome \in ExecOutcomes :
         LET r == PlanExecute(exec_plan, outcome)
         IN  /\ log' = Append(log, Event("execute", i, exec_plan, r))
             /\ IF IsErr(r)
                THEN /\ Return(r)
                     /\ UNCHANGED cmd_result
                ELSE /\ cmd_result' = r.val
                     /\ pc' = "judge"
                     /\ UNCHANGED result
    /\ UNCHANGED <<randVars, steps, init, randomizer0, randomizer, caller, i, report, step_plan, exec_plan>>

\* lines 108-112: the map_err of the judgment
JudgeError_fixed_text(err, command_output) == StepError("Plan", "plan failed", command_output)
JudgeError(err, command_output) == StepError("Plan", err, command_output)

\* the plan context handed to is_success (line 107)
JudgeCtx == step_plan.ctx

\* line 114: if !is_success { continue; }
SoftNegative_never(j) == FALSE
SoftNegative_inverted(j) == j.val
SoftNegative(j) == ~j.val

\* lines 106-116
RunJudge ==
    /\ pc = "judge"
    /\ LET j == is_success(steps[i], cmd_result, JudgeCtx)
       IN  /\ log' = Append(log, Event("is_success", i, [output |-> cmd_result, ctx |-> JudgeCtx], j))
           /\ IF IsErr(j)
              THEN /\ Return(Err(JudgeError(j.val, cmd_result)))
                   /\ UNCHANGED i
              ELSE IF SoftNegative(j)
              THEN /\ NextIteration
                   /\ UNCHANGED result
              ELSE /\ pc' = "check"
                   /\ UNCHANGED <<i, result>>
    /\ UNCHANGED <<randVars, steps, init, randomizer0, randomizer, caller, report, step_plan, exec_plan, cmd_result>>

\* lines 126-132 and 143-149: the verdict on the Output of a check or test command
CheckFailed_absent_passes(output) == output.status_code # None /\ output.status_code # Some(0)
CheckFailed(output) == output.status_code # Some(0)
CheckError(output) == StepError("Check", "check not finish with status code 0", output)
TestError(output) == StepError("Test", "test command not finish with status code 0", output)

\* lines 118-133
RunCheck ==
    /\ pc = "check"
    /\ LET c == run_check(i)
       IN  IF c = None
           THEN /\ log' = Append(log, Event("run_check", i, Unit, c))
                /\ pc' = "test"
                /\ UNCHANGED result
           ELSE \E outcome \in ExecOutcomes :
                  LET r == run_sh(c[1], outcome)
                  IN  /\ log' = log \o << Event("run_check", i, Unit, c),
                                          Event("check", i, c[1], r) >>
                      /\ IF IsErr(r) THEN Return(r)
                         ELSE IF CheckFailed(r.val) THEN Return(Err(CheckError(r.val)))
                         ELSE /\ pc' = "test"
                              /\ UNCHANGED result
    /\ UNCHANGED <<randVars, steps, init, randomizer0, randomizer, caller, i, report, step_plan, exec_plan, cmd_result>>

\* lines 135-151
RunTest ==
    /\ pc = "test"
    /\ LET c == run_test(i)
       IN  IF c = None
           THEN /\ log' = Append(log, Event("run_test", i, Unit, c))
                /\ NextIteration
                /\ UNCHANGED result
           ELSE \E outcome \in ExecOutcomes :
                  LET r == run_sh(c[1], outcome)
                  IN  /\ log' = log \o << Event("run_test", i, Unit, c),
                                          Event("test", i, c[1], r) >>
                      /\ IF IsErr(r) THEN Return(r) /\ UNCHANGED i
                         ELSE IF CheckFailed(r.val) THEN Return(Err(TestError(r.val))) /\ UNCHANGED i
                         ELSE /\ NextIteration
                              /\ UNCHANGED result
    /\ UNCHANGED <<randVars, steps, init, randomizer0, randomizer, caller, report, step_plan, exec_plan, cmd_result>>

\* the end of run() waiting for something that never comes
RunFinish_blocks ==
    /\ pc = "loop"
    /\ i > Len(steps)
    /\ UNCHANGED vars

\* lines 153-154: the loop is over
RunFinish ==
    /\ pc = "loop"
    /\ i > Len(steps)
    /\ Return(Ok(Unit))
    /\ UNCHANGED <<randVars, steps, init, randomizer0, randomizer, caller, i, report, step_plan, exec_plan, cmd_result, log>>

Next ==
    \/ CallDumpPlan
    \/ CallRun
    \/ DumpPlanStep
    \/ DumpPlanReturn
    \/ RunPlan
    \/ RunSetup
    \/ RunExecPlan
    \/ RunExecute
    \/ RunJudge
    \/ RunCheck
    \/ RunTest
    \/ RunFinish

Spec == Init /\ [][Next]_vars

\* the Runner with its builder: init_step may be called before dump_plan or run
NextInit ==
    \/ InitStep
    \/ Next

SpecInit == Init /\ [][NextInit]_vars

\* run() and dump_plan() are sequential code: a call in progress keeps going
SpecLive == Init /\ [][Next]_vars /\ WF_vars(Next)
(***************************************************************************)
(* Reading the history.                                                    *)
(***************************************************************************)
\* the events of the execution path of run() (after the dump)
InRun(e) == e.path # "dump"

\* the event is a failure that run() must not survive
Fatal(e) ==
    CASE e.op \in {"plan", "setup", "execute", "is_success"} -> IsErr(e.res)
      [] e.op \in {"check", "test"} -> IsErr(e.res) \/ e.res.val.status_code # Some(0)
      [] OTHER -> FALSE

\* run() returned the error that event e raised
Raised(e, r) ==
    /\ IsErr(r)
    /\ CASE e.op \in {"plan", "setup", "execute"} -> r = e.res
         [] e.op = "is_success" -> r.val.type = "StepError" /\ r.val.kind = "Plan"
         [] e.op = "check" -> IF IsErr(e.res) THEN r = e.res
                              ELSE r.val.type = "StepError" /\ r.val.kind = "Check"
         [] e.op = "test" -> IF IsErr(e.res) THEN r = e.res
                             ELSE r.val.type = "StepError" /\ r.val.kind = "Test"
         [] OTHER -> FALSE

Events(op, s) == { k \in DOMAIN log : log[k].op = op /\ log[k].step = s /\ InRun(log[k]) }

\* step s went through its judgment
Judged(s) == Events("is_success", s) # {}

JudgedAs(s, b) == \E k \in Events("is_success", s) : log[k].res = Ok(b)

NoFatal == \A k \in DOMAIN log : ~Fatal(log[k])

(***************************************************************************)
(* C1: in run(), the first fatal error of any phase of any step is the     *)
(* last thing that happens: nothing is called after it and run() returns   *)
(* that error.  run() returns success if and only if it has returned and   *)
(* every step of the list went through without a fatal error.              *)
(***************************************************************************)
C1_FirstFatalErrorAborts ==
    caller = "run" =>
      /\ \A k \in DOMAIN log :
           Fatal(log[k]) => /\ k = Len(log)
                            /\ pc = "done"
                            /\ Raised(log[k], result)
      /\ IsErr(result) => (log # <<>> /\ Fatal(log[Len(log)]))
      /\ pc = "done" <=> result # Pending
      /\ result = Ok(Unit) <=>
            (pc = "done" /\ NoFatal /\ \A s \in 1..Len(steps) : Judged(s))

C1_Witness ==
    /\ caller = "run"
    /\ pc = "done"
    /\ IsErr(result)
    /\ Len(steps) = 2
    /\ i = 1
    /\ \E k \in DOMAIN log : InRun(log[k]) /\ Fatal(log[k])

(***************************************************************************)
(* C2: a judgment of false is not an error: the step's check and test      *)
(* commands are not run (nor asked for), the very next call is the plan of *)
(* the next step (or, after the last step, the successful return), and a   *)
(* run in which every step judges false returns success.                   *)
(***************************************************************************)
C2_SoftNegativeContinues ==
    /\ \A k \in DOMAIN log :
         (log[k].op = "is_success" /\ log[k].res = Ok(FALSE)) =>
            LET s == log[k].step
            IN  /\ \A op \in {"run_check", "check", "run_test", "test"} : Events(op, s) = {}
                /\ IF k < Len(log)
                   THEN /\ s < Len(steps)
                        /\ log[k + 1].op = "plan"
                        /\ log[k + 1].step = s + 1
                   ELSE \/ pc = "loop" /\ i = s + 1 /\ result = Pending
                        \/ pc = "done" /\ s = Len(steps) /\ result = Ok(Unit)
    /\ (pc = "done" /\ caller = "run" /\ NoFatal) => result = Ok(Unit)

C2_Witness ==
    /\ pc = "done"
    /\ Len(steps) = 2
    /\ JudgedAs(1, FALSE)
    /\ JudgedAs(2, FALSE)
    /\ result = Ok(Unit)

(***************************************************************************)
(* C3: when is_success returns an error, run() returns a StepError of kind *)
(* Plan whose description is the predicate's text and whose command_output *)
(* is the Output of the plan command executed last for that step, and      *)
(* nothing is called afterwards.                                           *)
(***************************************************************************)
LastExecute(s) ==
    LET ks == Events("execute", s)
    IN  log[CHOOSE k \in ks : \A l \in ks : l <= k]

C3_JudgmentErrorIsPlanStepError ==
    \A k \in DOMAIN log :
      (log[k].op = "is_success" /\ IsErr(log[k].res)) =>
         /\ k = Len(log)
         /\ pc = "done"
         /\ result = Err([type |-> "StepError",
                          kind |-> "Plan",
                          description |-> log[k].res.val,
                          command_output |-> LastExecute(log[k].step).res.val])

C3_Witness ==
    /\ pc = "done"
    /\ Len(steps) = 2
    /\ i = 1
    /\ log # <<>>
    /\ log[Len(log)].op = "is_success"
    /\ IsErr(log[Len(log)].res)
    /\ result.val.command_output.status_code = Some(0)

(***************************************************************************)
(* C4: a check (test) command that ends with an exit code other than 0, or *)
(* with none, makes run() return a StepError of kind Check (Test) carrying *)
(* that command's Output; nothing is called afterwards.                    *)
(***************************************************************************)
C4_CheckAndTestFailuresAreFatal ==
    \A k \in DOMAIN log :
      (log[k].op \in {"check", "test"} /\ IsOk(log[k].res)
         /\ log[k].res.val.status_code # Some(0)) =>
         /\ k = Len(log)
         /\ pc = "done"
         /\ IsErr(result)
         /\ result.val.type = "StepError"
         /\ result.val.kind = (IF log[k].op = "check" THEN "Check" ELSE "Test")
         /\ result.val.command_output = log[k].res.val

C4_Witness ==
    /\ pc = "done"
    /\ Len(steps) = 2
    /\ i = 1
    /\ log # <<>>
    /\ log[Len(log)].op = "check"
    /\ IsOk(log[Len(log)].res)
    /\ log[Len(log)].res.val.status_code = None
    /\ result.val.kind = "Check"

(***************************************************************************)
(* C5: a check (test) command is executed only for a step whose is_success *)
(* returned true and that supplies the command; a step that supplies       *)
(* neither executes nothing but its plan command.                          *)
(***************************************************************************)
C5_CheckAndTestOnlyAfterTrueJudgment ==
    /\ \A k \in DOMAIN log :
         /\ log[k].op = "check" =>
              /\ \E l \in 1..(k - 1) :
                    /\ log[l].op = "is_success"
                    /\ log[l].step = log[k].step
                    /\ log[l].res = Ok(TRUE)
              /\ steps[log[k].step].run_check
              /\ log[k].arg = run_check(log[k].step)[1]
         /\ log[k].op = "test" =>
              /\ \E l \in 1..(k - 1) :
                    /\ log[l].op = "is_success"
                    /\ log[l].step = log[k].step
                    /\ log[l].res = Ok(TRUE)
              /\ steps[log[k].step].run_test
              /\ log[k].arg = run_test(log[k].step)[1]
    /\ \A s \in 1..Len(steps) :
         (~steps[s].run_check /\ ~steps[s].run_test) =>
            (Events("check", s) = {} /\ Events("test", s) = {})

C5_Witness ==
    /\ caller = "run"
    /\ pc = "done"
    /\ result = Ok(Unit)
    /\ Len(steps) = 2
    /\ steps[1].run_check /\ steps[1].run_test
    /\ Events("check", 1) # {} /\ Events("test", 1) # {}
    /\ ~steps[2].run_check /\ ~steps[2].run_test
    /\ JudgedAs(2, TRUE)

(***************************************************************************)
(* C6: for every step, the lifecycle operations of the execution path      *)
(* occur in the strict order setup, plan, execution of the plan command,   *)
(* is_success, check command, test command: none before an earlier one of  *)
(* the same step, and none twice.                                          *)
(***************************************************************************)
LifecycleRank(op) ==
    CASE op = "setup" -> 1
      [] op = "plan" -> 2
      [] op = "execute" -> 3
      [] op = "is_success" -> 4
      [] op = "check" -> 5
      [] op = "test" -> 6
      [] OTHER -> 0

C6_StrictLifecycleOrder ==
    \A k, l \in DOMAIN log :
      ( /\ k < l
        /\ InRun(log[k]) /\ InRun(log[l])
        /\ log[k].step = log[l].step
        /\ LifecycleRank(log[k].op) > 0
        /\ LifecycleRank(log[l].op) > 0 )
      => LifecycleRank(log[k].op) < LifecycleRank(log[l].op)

(***************************************************************************)
(* C7: the plan context handed to is_success is the context of the Plan    *)
(* whose command was executed to produce the Output being judged.          *)
(***************************************************************************)
C7_JudgedContextIsExecutedPlansContext ==
    \A k \in DOMAIN log :
      log[k].op = "is_success" =>
         /\ log[k].arg.output = LastExecute(log[k].step).res.val
         /\ log[k].arg.ctx = LastExecute(log[k].step).arg.ctx

(***************************************************************************)
(* C8: run() asks each step for a plan once in the dump and, for each step *)
(* that reaches execution, once more in the execution path: a run of N     *)
(* steps without fatal error calls plan 2N times and advances the random   *)
(* stream by those 2N draw-sets.                                           *)
(***************************************************************************)
PlanCalls == { k \in DOMAIN log : log[k].op = "plan" }

C8_TwoPlanRequestsPerStep ==
    caller = "run" =>
      /\ \A s \in 1..Len(steps) :
           /\ Cardinality({ k \in PlanCalls : log[k].step = s /\ ~InRun(log[k]) }) <= 1
           /\ Events("execute", s) # {} => Cardinality(Events("plan", s)) = 1
      /\ result = Ok(Unit) =>
           /\ Cardinality(PlanCalls) = 2 * Len(steps)
           /\ randomizer.rng.pos = randomizer0.rng.pos + 2 * Len(steps)

(***************************************************************************)
(* C9: dump_plan() calls plan once per step, in list order, each followed  *)
(* by the step's to_yaml; it calls nothing else (no setup, is_success,     *)
(* run_check, run_test, no command execution) and changes nothing but the  *)
(* position of the random stream, by one draw-set per plan call.           *)
(***************************************************************************)
C9_DumpPlanOnlyPlans ==
    (caller = "dump_plan" \/ pc = "dump") =>
      /\ \A k \in DOMAIN log :
           /\ log[k].op \in {"plan", "to_yaml"}
           /\ log[k].op = "plan" =>
                log[k].step = Cardinality({ l \in PlanCalls : l <= k })
           /\ log[k].op = "to_yaml" =>
                /\ k > 1
                /\ log[k - 1].op = "plan"
                /\ log[k - 1].step = log[k].step
           /\ (log[k].op = "plan" /\ IsOk(log[k].res)) =>
                (k < Len(log) /\ log[k + 1].op = "to_yaml")
      /\ (caller = "dump_plan" /\ pc = "done" /\ IsOk(result)) =>
           /\ Cardinality(PlanCalls) = Len(steps)
           /\ Len(result.val) = Len(steps) + 1
      /\ randomizer.seed = randomizer0.seed
      /\ randomizer.rng.pos = randomizer0.rng.pos + Cardinality(PlanCalls)
      /\ step_plan = NoPlan
      /\ exec_plan = NoPlan
      /\ cmd_result = Pending

C9_Witness ==
    /\ caller = "dump_plan"
    /\ pc = "done"
    /\ IsOk(result)
    /\ Len(steps) = 2
    /\ Cardinality(PlanCalls) = 2
    /\ randomizer.rng.pos = randomizer0.rng.pos + 2

(***************************************************************************)
(* C11: a plan command that ends with a non-zero (or absent) exit code     *)
(* does not end the run: its Output is what is_success is called with      *)
(* next, and run() returns an error after it only if that judgment (or a   *)
(* later phase) fails; a run whose second step exits non-zero and accepts  *)
(* it returns success.                                                     *)
(***************************************************************************)
NonZeroExit(e) ==
    e.op = "execute" /\ IsOk(e.res) /\ e.res.val.status_code # Some(0)

C11_NonZeroExitIsJudged ==
    \A k \in DOMAIN log :
      NonZeroExit(log[k]) =>
         IF k = Len(log)
         THEN pc = "judge" /\ result = Pending /\ cmd_result = log[k].res.val
         ELSE /\ log[k + 1].op = "is_success"
              /\ log[k + 1].step = log[k].step
              /\ log[k + 1].arg.output = log[k].res.val
              /\ (k + 1 = Len(log) /\ log[k + 1].res = Ok(TRUE)) =>
                    (pc = "check" /\ result = Pending)

C11_Witness ==
    /\ caller = "run"
    /\ pc = "done"
    /\ result = Ok(Unit)
    /\ Len(steps) = 2
    /\ steps[1].judge = "RequireZero"
    /\ steps[2].judge = "ExpectFailure"
    /\ LastExecute(1).res.val.status_code = Some(0)
    /\ LastExecute(2).res.val.status_code = Some(1)

(***************************************************************************)
(* C12 as claimed: an execution-level error of a step's plan command (the  *)
(* shell could not be launched, the captured output is not valid text)     *)
(* does not end the run: the run is still going on after it.               *)
(***************************************************************************)
ExecutionError(e) == e.op = "execute" /\ IsErr(e.res)

C12_ExecutionErrorIsDeferred ==
    \A k \in DOMAIN log :
      ExecutionError(log[k]) => ~(pc = "done" /\ IsErr(result))

(***************************************************************************)
(* C12 as amended: an execution-level error of a step's plan command ends  *)
(* the run at once: run() returns that IO or UTF-8 error itself and the    *)
(* step's is_success is not called.                                        *)
(***************************************************************************)
C12_ExecutionErrorIsFatal ==
    \A k \in DOMAIN log :
      ExecutionError(log[k]) =>
         /\ k = Len(log)
         /\ pc = "done"
         /\ result = log[k].res
         /\ result.val \in {IOError, Utf8Error}
         /\ Events("is_success", log[k].step) = {}

C12_Witness ==
    /\ caller = "run"
    /\ pc = "done"
    /\ Len(steps) = 2
    /\ i = 1
    /\ log # <<>>
    /\ ExecutionError(log[Len(log)])
    /\ result = Err(Utf8Error)

(***************************************************************************)
(* C13: when a step's setup fails, run() returns that error at once: the   *)
(* step's plan command is not executed, its is_success, check and test are *)
(* not called, setup is not called again and no later step is touched.     *)
(***************************************************************************)
C13_SetupFailureIsFatal ==
    \A k \in DOMAIN log :
      (log[k].op = "setup" /\ IsErr(log[k].res)) =>
         LET s == log[k].step
         IN  /\ k = Len(log)
             /\ pc = "done"
             /\ result = log[k].res
             /\ \A op \in {"execute", "is_success", "run_check", "check", "run_test", "test"} :
                   Events(op, s) = {}
             /\ Cardinality(Events("setup", s)) = 1
             /\ \A l \in DOMAIN log : InRun(log[l]) => log[l].step <= s

C13_Witness ==
    /\ caller = "run"
    /\ pc = "done"
    /\ Len(steps) = 2
    /\ i = 1
    /\ log # <<>>
    /\ log[Len(log)].op = "setup"
    /\ result = Err(IOError)

(***************************************************************************)
(* C14: when a call of a step's plan fails, in the dump or in the          *)
(* execution path, run() returns that error at once: nothing is called and *)
(* no command is executed after the failing call.                          *)
(***************************************************************************)
C14_PlanFailureIsFatal ==
    caller = "run" =>
      \A k \in DOMAIN log :
        (log[k].op = "plan" /\ IsErr(log[k].res)) =>
           /\ k = Len(log)
           /\ pc = "done"
           /\ result = log[k].res

C14_Witness ==
    /\ caller = "run"
    /\ pc = "done"
    /\ Len(steps) = 2
    /\ i = 1
    /\ log # <<>>
    /\ log[Len(log)].op = "plan"
    /\ log[Len(log)].path = "execplan"
    /\ result = Err(AnyError("plan"))

(***************************************************************************)
(* Two Randomizers built from one seed, at different moments, and driven   *)
(* by the same sequence of draw operations.                                *)
(***************************************************************************)
EntropyValues == 0..MaxSeed

StringDefs ==
    [length : 0..MaxLen, include_unicode : BOOLEAN, include_symbol : BOOLEAN,
     include_capital_letters : BOOLEAN, include_numbers : BOOLEAN]

ItemLists == UNION { [1..n -> 1..2] : n \in 0..MaxItems }

InitRand ==
    /\ steps = <<>>
    /\ init = None
    /\ randomizer = Unbuilt
    /\ randomizer0 = Unbuilt
    /\ pc = "new_a"
    /\ caller = "none"
    /\ i = 0
    /\ report = <<>>
    /\ step_plan = NoPlan
    /\ exec_plan = NoPlan
    /\ cmd_result = Pending
    /\ result = Pending
    /\ log = <<>>
    /\ entropy \in EntropyValues
    /\ ra = Unbuilt
    /\ rb = Unbuilt
    /\ outa = <<>>
    /\ outb = <<>>
    /\ ops = 0
    /\ lastop = NoOp

\* let ra = Randomizer::with_seed(seed);
NewA ==
    /\ pc = "new_a"
    /\ \E seed \in 0..MaxSeed : ra' = with_seed(seed)
    /\ entropy' \in EntropyValues
    /\ pc' = "new_b"
    /\ UNCHANGED <<runnerVars_but_pc, rb, outa, outb, ops, lastop>>

\* let rb = Randomizer::with_seed(seed);   (the same seed, later)
NewB ==
    /\ pc = "new_b"
    /\ rb' = with_seed(ra.seed)
    /\ entropy' \in EntropyValues
    /\ pc' = "draw"
    /\ UNCHANGED <<runnerVars_but_pc, ra, outa, outb, ops, lastop>>

\* the same draw operation on both: da and db are what it returns on ra and rb
Draw(da, db) ==
    /\ pc = "draw"
    /\ ops < MaxOps
    /\ ra' = da.next
    /\ rb' = db.next
    /\ outa' = da.val
    /\ outb' = db.val
    /\ ops' = ops + 1
    /\ entropy' \in EntropyValues
    /\ UNCHANGED <<runnerVars_but_pc, pc, lastop>>

DrawNumber ==
    \E min \in 0..2, max \in 0..3 :
       /\ max >= min
       /\ Draw(number_between(ra, min, max), number_between(rb, min, max))

DrawBool == Draw(bool(ra), bool(rb))

DrawString == \E def \in StringDefs : Draw(string(ra, def), string(rb, def))

DrawPath == Draw(path(ra), path(rb))

DrawShuffle == \E items \in ItemLists : Draw(shuffle(ra, items), shuffle(rb, items))

DrawPick == \E items \in ItemLists : Draw(pick_random(ra, items), pick_random(rb, items))

\* two Runners with these randomizers ask the same step for its plan
DrawPlan ==
    \E t \in StepTypes, k \in 1..MaxSteps :
       LET pa == StepPlan(t, k, ra, FALSE)
           pb == StepPlan(t, k, rb, FALSE)
       IN  Draw([val |-> pa.res, next |-> pa.next], [val |-> pb.res, next |-> pb.next])

NextRand ==
    \/ NewA
    \/ NewB
    \/ DrawNumber
    \/ DrawBool
    \/ DrawString
    \/ DrawPath
    \/ DrawShuffle
    \/ DrawPick
    \/ DrawPlan

SpecRand == InitRand /\ [][NextRand]_vars

U32Samples == {0, 1, 2, U32 - 2, U32 - 1}

DrawItems == UNION { [1..n -> 1..MaxItems] : n \in 0..MaxItems }

InitDraw ==
    /\ steps = <<>>
    /\ init = None
    /\ randomizer = Unbuilt
    /\ randomizer0 = Unbuilt
    /\ pc = "draw_new"
    /\ caller = "none"
    /\ i = 0
    /\ report = <<>>
    /\ step_plan = NoPlan
    /\ exec_plan = NoPlan
    /\ cmd_result = Pending
    /\ result = Pending
    /\ log = <<>>
    /\ entropy \in EntropyValues
    /\ ra = Unbuilt
    /\ rb = Unbuilt
    /\ outa = <<>>
    /\ outb = <<>>
    /\ ops = 0
    /\ lastop = NoOp

\* let ra = Randomizer::with_seed(seed);
DrawNew ==
    /\ pc = "draw_new"
    /\ \E seed \in 0..MaxSeed : ra' = with_seed(seed)
    /\ pc' = "draw_prior"
    /\ UNCHANGED <<runnerVars_but_pc, entropy, rb, outa, outb, ops, lastop>>

\* an earlier draw that took one word of the stream: ra.bool()
DrawPrior ==
    /\ pc = "draw_prior"
    /\ ops < MaxStreamPos
    /\ ra' = bool(ra).next
    /\ ops' = ops + 1
    /\ UNCHANGED <<runnerVars_but_pc, pc, entropy, rb, outa, outb, lastop>>

\* the call under study: d is what it returns on ra
Apply(op, arg, d) ==
    /\ pc = "draw_prior"
    /\ outa' = d.val
    /\ ra' = d.next
    /\ lastop' = [op |-> op, arg |-> arg, r |-> ra, panic |-> d.panic]
    /\ pc' = "draw_done"
    /\ UNCHANGED <<runnerVars_but_pc, entropy, rb, outb, ops>>

\* ra.number_between(min, max) with max >= min
ApplyNumber ==
    \E min \in U32Samples, max \in U32Samples :
       /\ max >= min
       /\ Apply("number_between", [min |-> min, max |-> max], number_between(ra, min, max))

\* ra.string(def).to_string()
ApplyString ==
    \E def \in StringDefs :
       LET d == string(ra, def)
       IN  Apply("string", def, [val |-> d.val, next |-> d.next, panic |-> FALSE])

\* ra.shuffle(&items)
ApplyShuffle ==
    \E items \in DrawItems :
       LET d == shuffle(ra, items)
       IN  Apply("shuffle", [items |-> items, after |-> d.items],
                 [val |-> d.val, next |-> d.next, panic |-> FALSE])

\* ra.pick_random(&items)
ApplyPick ==
    \E items \in DrawItems : Apply("pick_random", items, pick_random(ra, items))

\* the strings handed to the contains_* predicates: a space, '#', '1', 'A',
\* 'a' and U+00E9 (a lowercase letter outside ASCII), up to MaxLen chars
CharSamples == {32, 35, 49, 65, 97, 233}
StrSamples == UNION { [1..n -> CharSamples] : n \in 0..MaxLen }

\* StringDef::contains_only_lowercase(s): an associated function, no Randomizer
ApplyContains ==
    /\ pc = "draw_new"
    /\ \E str \in StrSamples :
          /\ outa' = contains_only_lowercase(str)
          /\ lastop' = [op |-> "contains_only_lowercase", arg |-> str, r |-> ra, panic |-> FALSE]
    /\ pc' = "draw_done"
    /\ UNCHANGED <<runnerVars_but_pc, entropy, ra, rb, outb, ops>>

NextDraw ==
    \/ ApplyContains
    \/ DrawNew
    \/ DrawPrior
    \/ ApplyNumber
    \/ ApplyString
    \/ ApplyShuffle
    \/ ApplyPick

SpecDraw == InitDraw /\ [][NextDraw]_vars

(***************************************************************************)
(* C15: generate returns a string of exactly def.length chars, for every   *)
(* StringDef (unicode enabled or not) and every position of the stream.    *)
(***************************************************************************)
C15_GeneratedLengthInChars ==
    lastop.op = "string" => Len(outa) = lastop.arg.length

(***************************************************************************)
(* C16: the class of each generated char follows from its selector c by    *)
(* the fixed priority unicode (enabled, c < 20), symbol (enabled, c < 40), *)
(* capital (enabled, c < 60), digit (enabled, c < 80), else lowercase; a   *)
(* disabled class falls through.                                           *)
(***************************************************************************)
\* the class a char belongs to, by the alphabets generate draws from
ClassOf(c) ==
    CASE c >= 128512 /\ c <= 128590 -> "unicode"
      [] c >= 65 /\ c <= 90 -> "capital"
      [] c >= 48 /\ c <= 57 -> "digit"
      [] c >= 97 /\ c <= 122 -> "lowercase"
      [] \E k \in DOMAIN SYMBOLS : SYMBOLS[k] = c -> "symbol"
      [] OTHER -> "other"

\* the class the claim assigns to selector c
ClaimedClass(def, c) ==
    IF def.include_unicode /\ c < 20 THEN "unicode"
    ELSE IF def.include_symbol /\ c < 40 THEN "symbol"
    ELSE IF def.include_capital_letters /\ c < 60 THEN "capital"
    ELSE IF def.include_numbers /\ c < 80 THEN "digit"
    ELSE "lowercase"

\* the selector drawn for the j-th char: each char takes two words
Selector(j) == next_u32(Advance(lastop.r, 2 * (j - 1))).val % 100

C16_ClassBySelectorPriority ==
    lastop.op = "string" =>
       \A j \in DOMAIN outa : ClassOf(outa[j]) = ClaimedClass(lastop.arg, Selector(j))

C16_Witness ==
    /\ lastop.op = "string"
    /\ lastop.arg.include_numbers
    /\ ~lastop.arg.include_unicode
    /\ ~lastop.arg.include_symbol
    /\ ~lastop.arg.include_capital_letters
    /\ Len(outa) = MaxLen
    /\ Selector(1) < 20
    /\ \A j \in DOMAIN outa : Selector(j) < 80 /\ ClassOf(outa[j]) = "digit"

(***************************************************************************)
(* C17: every char of a generated string is a lowercase ASCII letter or    *)
(* belongs to a class whose toggle is enabled; with the four toggles       *)
(* disabled the string is lowercase ASCII only and contains_only_lowercase *)
(* holds for it.                                                           *)
(***************************************************************************)
C17_OnlyEnabledClasses ==
    lastop.op = "string" =>
       /\ \A j \in DOMAIN outa :
             \/ ClassOf(outa[j]) = "lowercase"
             \/ ClassOf(outa[j]) = "unicode" /\ lastop.arg.include_unicode
             \/ ClassOf(outa[j]) = "symbol" /\ lastop.arg.include_symbol
             \/ ClassOf(outa[j]) = "capital" /\ lastop.arg.include_capital_letters
             \/ ClassOf(outa[j]) = "digit" /\ lastop.arg.include_numbers
       /\ ( /\ ~lastop.arg.include_unicode
            /\ ~lastop.arg.include_symbol
            /\ ~lastop.arg.include_capital_letters
            /\ ~lastop.arg.include_numbers )
          => ( /\ contains_only_lowercase(outa)
               /\ \A j \in DOMAIN outa : ClassOf(outa[j]) = "lowercase" )

C17_Witness ==
    /\ lastop.op = "string"
    /\ ~lastop.arg.include_unicode
    /\ ~lastop.arg.include_symbol
    /\ ~lastop.arg.include_capital_letters
    /\ ~lastop.arg.include_numbers
    /\ Len(outa) = MaxLen
    /\ Selector(1) < 80
    /\ contains_only_lowercase(outa)

(***************************************************************************)
(* C18: for all u32 min <= max, 0 and 2^32 - 1 included, number_between    *)
(* returns min + (draw mod (max - min + 1)), a value of min..max, without   *)
(* overflow or failure.                                                    *)
(***************************************************************************)
C18_NumberBetweenTotal ==
    lastop.op = "number_between" =>
       /\ ~lastop.panic
       /\ outa = lastop.arg.min
                   + (next_u32(lastop.r).val % (lastop.arg.max - lastop.arg.min + 1))
       /\ outa >= lastop.arg.min
       /\ outa <= lastop.arg.max

(***************************************************************************)
(* C19: shuffle returns a sequence of the input's size with the same       *)
(* elements the same number of times, and leaves the input as it was.      *)
(***************************************************************************)
Count(s, x) == Cardinality({ k \in DOMAIN s : s[k] = x })

C19_ShuffleIsPermutation ==
    lastop.op = "shuffle" =>
       /\ Len(outa) = Len(lastop.arg.items)
       /\ \A x \in 1..MaxItems : Count(outa, x) = Count(lastop.arg.items, x)
       /\ lastop.arg.after = lastop.arg.items

C19_Witness ==
    /\ lastop.op = "shuffle"
    /\ Len(lastop.arg.items) = MaxItems
    /\ Cardinality(Chars(lastop.arg.items)) = 2
    /\ outa # lastop.arg.items

(***************************************************************************)
(* C20: pick_random on a non-empty input returns 1 to 10 elements,         *)
(* whatever the input's size, each of them an element of the input.        *)
(***************************************************************************)
C20_PickRandomSamples ==
    (lastop.op = "pick_random" /\ lastop.arg # <<>>) =>
       /\ ~lastop.panic
       /\ Len(outa) >= 1
       /\ Len(outa) <= 10
       /\ \A j \in DOMAIN outa : outa[j] \in Chars(lastop.arg)

C20_Witness ==
    /\ lastop.op = "pick_random"
    /\ Len(lastop.arg) = 1
    /\ ~lastop.panic
    /\ Len(outa) > 1

(***************************************************************************)
(* C21: the seed of the Runner's randomizer is the one it was built with:  *)
(* no draw, no dump_plan and no run changes it, and the seed written in    *)
(* the plan report is that seed, whatever was drawn before.                *)
(***************************************************************************)
C21_SeedIsFixed ==
    /\ randomizer.seed = randomizer.rng.key
    /\ randomizer.seed = randomizer0.seed
    /\ report # <<>> => report[1].seed = randomizer0.seed

C21_Witness ==
    /\ caller = "run"
    /\ pc = "done"
    /\ result = Ok(Unit)
    /\ Len(steps) = MaxSteps
    /\ randomizer0.rng.pos > 0
    /\ randomizer.rng.pos >= randomizer0.rng.pos + 3 * MaxSteps
    /\ report[1].seed = MaxSeed

(***************************************************************************)
(* C22: in the execution path of run() the steps are taken in list order,  *)
(* none is revisited, and no setup, plan command, judgment, check or test  *)
(* of a step happens more than once: there is no retry.                    *)
(***************************************************************************)
C22_ListOrderNoRetry ==
    caller = "run" =>
       /\ \A k, l \in DOMAIN log :
             (k < l /\ InRun(log[k]) /\ InRun(log[l])) => log[k].step <= log[l].step
       /\ \A s \in DOMAIN steps :
             \A op \in {"setup", "execute", "is_success", "run_check", "check", "run_test", "test"} :
                Cardinality(Events(op, s)) <= 1

C22_Witness ==
    /\ caller = "run"
    /\ pc = "done"
    /\ Len(steps) = MaxSteps
    /\ i = MaxSteps
    /\ JudgedAs(1, FALSE)
    /\ Events("test", MaxSteps) # {}
    /\ IsErr(result)

(***************************************************************************)
(* C23: every step callback and every command returning, a call of run()   *)
(* on N steps returns (success or error), and it never goes past the N     *)
(* steps of the list.                                                      *)
(***************************************************************************)
C23_RunReturns ==
    /\ [](caller = "run" => i <= Len(steps) + 1)
    /\ (caller = "run") ~> (pc = "done" /\ result # Pending)

C23_Witness ==
    /\ caller = "run"
    /\ pc = "done"
    /\ result = Ok(Unit)
    /\ Len(steps) = MaxSteps
    /\ i = MaxSteps + 1
    /\ \A s \in DOMAIN steps : Events("test", s) # {} \/ Events("run_test", s) # {}

(***************************************************************************)
(* C26: run() asks every step of the list for its plan, in list order,     *)
(* before the first setup, execution or judgment of any step; when the     *)
(* plan of a step fails in the dump, run() returns that error and no step, *)
(* the earlier ones included, had a setup or a command executed.           *)
(***************************************************************************)
C26_DumpBeforeExecution ==
    caller = "run" =>
       /\ \A k \in DOMAIN log :
             InRun(log[k]) =>
                \A s \in DOMAIN steps :
                   \E l \in 1..(k - 1) :
                      /\ log[l].path = "dump"
                      /\ log[l].op = "plan"
                      /\ log[l].step = s
                      /\ IsOk(log[l].res)
       /\ \A k, l \in DOMAIN log :
             (k < l /\ ~InRun(log[k]) /\ ~InRun(log[l])) => log[k].step <= log[l].step
       /\ \A k \in DOMAIN log :
             (~InRun(log[k]) /\ IsErr(log[k].res)) =>
                /\ k = Len(log)
                /\ pc = "done"
                /\ result = log[k].res
                /\ \A l \in DOMAIN log : ~InRun(log[l]) /\ log[l].op \in {"plan", "to_yaml"}

C26_Witness ==
    /\ caller = "run"
    /\ pc = "done"
    /\ Len(steps) = 2
    /\ Len(log) = 3
    /\ log[1].op = "plan" /\ log[1].step = 1 /\ IsOk(log[1].res)
    /\ log[3].op = "plan" /\ log[3].step = 2 /\ log[3].path = "dump"
    /\ result = log[3].res
    /\ IsErr(result)

(***************************************************************************)
(* C24: contains_only_lowercase(s) is true exactly when every char of s is *)
(* a lowercase letter, for every string s: the empty string, and strings   *)
(* with ASCII chars that are no letter, digit or symbol, such as a space.  *)
(***************************************************************************)
\* char::is_lowercase on the code points below 256
LowercaseLetter(c) ==
    \/ c >= 97 /\ c <= 122
    \/ c \in {170, 181, 186}
    \/ c >= 223 /\ c <= 255 /\ c # 247

C24_OnlyLowercaseIffAllLowercase ==
    lastop.op = "contains_only_lowercase" =>
       (outa <=> \A c \in Chars(lastop.arg) : LowercaseLetter(c))

(***************************************************************************)
(* C25: every Plan the Runner executes has a non-empty command: no Plan    *)
(* with an empty command text reaches the execution collaborator.          *)
(***************************************************************************)
C25_ExecutedCommandNonEmpty ==
    \A k \in DOMAIN log : log[k].op = "execute" => log[k].arg.command # <<>>

(***************************************************************************)
(* C27: the step given to init_step is stored and never used: dump_plan    *)
(* and run call none of its operations, the reported step count and the    *)
(* report's entries are those of the list alone, and the stored step is    *)
(* still there when the operation returns.                                 *)
(***************************************************************************)
C27_InitStepIsNeverUsed ==
    /\ \A k \in DOMAIN log : log[k].step \in DOMAIN steps
    /\ report # <<>> =>
          /\ report[1].count = Len(steps)
          /\ Len(report) <= 1 + Len(steps)
          /\ \A k \in 2..Len(report) : report[k].state = steps[k - 1].name
    /\ (caller = "run" /\ pc = "done" /\ result = Ok(Unit)) =>
          \A s \in DOMAIN steps : Events("execute", s) # {}

C27_Witness ==
    /\ init # None
    /\ init[1].name = "TestStepOne"
    /\ caller = "run"
    /\ pc = "done"
    /\ result = Ok(Unit)
    /\ Len(steps) = 1
    /\ steps[1].name = "StepTwo"
    /\ report[1].count = 1
    /\ Events("check", 1) = {}

(***************************************************************************)
(* C28 as claimed: every StepError that run() returns has kind Plan, Check *)
(* or Test, never Setup: Plan only after an error of is_success, Check     *)
(* only after a failing check command, Test only after a failing test      *)
(* command; a failure of setup, plan or the collaborator is returned as    *)
(* it is.                                                                  *)
(***************************************************************************)
LastEvent == log[Len(log)]

ReturnedStepError ==
    /\ caller = "run"
    /\ pc = "done"
    /\ IsErr(result)
    /\ result.val.type = "StepError"

CommandFailed(e) == IsOk(e.res) /\ e.res.val.status_code # Some(0)

C28_StepErrorKindsOfRun ==
    /\ ReturnedStepError =>
          /\ result.val.kind \in {"Plan", "Check", "Test"}
          /\ result.val.kind = "Plan" => (LastEvent.op = "is_success" /\ IsErr(LastEvent.res))
          /\ result.val.kind = "Check" => (LastEvent.op = "check" /\ CommandFailed(LastEvent))
          /\ result.val.kind = "Test" => (LastEvent.op = "test" /\ CommandFailed(LastEvent))
    /\ (caller = "run" /\ pc = "done" /\ IsErr(result)
          /\ LastEvent.op \in {"setup", "plan", "execute"}) => result = LastEvent.res

(***************************************************************************)
(* C28 as amended: every StepError that run() builds itself has kind Plan  *)
(* (after an error of is_success), Check (after a failing check command)   *)
(* or Test (after a failing test command), never Setup; an error returned  *)
(* by setup, by plan or by the collaborator is returned as that value,     *)
(* which is a StepError of any kind when the step returned one.            *)
(***************************************************************************)
C28_StepErrorsBuiltByRun ==
    (caller = "run" /\ pc = "done" /\ IsErr(result)) =>
       CASE LastEvent.op \in {"setup", "plan", "execute"} ->
               /\ IsErr(LastEvent.res)
               /\ result = LastEvent.res
         [] LastEvent.op = "is_success" ->
               /\ IsErr(LastEvent.res)
               /\ result.val.type = "StepError"
               /\ result.val.kind = "Plan"
         [] LastEvent.op \in {"check", "test"} ->
               IF IsErr(LastEvent.res) THEN result = LastEvent.res
               ELSE /\ CommandFailed(LastEvent)
                    /\ result.val.type = "StepError"
                    /\ result.val.kind = (IF LastEvent.op = "check" THEN "Check" ELSE "Test")
         [] OTHER -> FALSE

C28_Witness ==
    /\ ReturnedStepError
    /\ result.val.kind = "Setup"
    /\ LastEvent.op = "setup"
    /\ result = LastEvent.res
    /\ Len(steps) = 2
    /\ i = 2
    /\ Events("test", 1) # {}

====
